---- MODULE Spec2Model ----
(***************************************************************************)
(* Text-to-Motion API gateway (src/text_motion_api/main.py): the session   *)
(* registry, the per-session rate limiter, the per-session motion store    *)
(* and the remote generation exchange, as an asyncio program.  Code        *)
(* between two awaits runs atomically; the awaits that really suspend are  *)
(* inside generate_motion_from_remote (connect, then send and recv), which *)
(* touch no shared state, and the sleep of periodic_cleanup.               *)
(* asyncio.Lock is never held across a suspension (the bodies of           *)
(* get_or_create_session and cleanup_expired_sessions contain no await),   *)
(* so both run as one step.                                                *)
(***************************************************************************)
EXTENDS Integers, Sequences, FiniteSets, TLC

\* ---------------------------------------------------------------- bounds
\* Session objects ever allocated, motion ids ever stored, concurrent
\* generate requests, and the largest configured limits tried.
MaxObjs == 2
MaxMotions == 3
NumTasks == 2
MaxCeiling == 2
MaxStored == 2

\* The instants (in minutes) at which the clock is observed.  They realise
\* every boundary of the three durations of the code: 1 minute (0->1 equal,
\* 0->31 over), 30 minutes (1->31 equal, 0->31 over), 120 minutes
\* (1->121 equal, 0->121 over).
TimePoints == {0, 1, 31, 121}
\* The instants that tell the rate limiter's window apart.
WindowTimes == {0, 1, 31}
\* The instants that tell an idle session apart.
IdleTimes == {0, 31}

\* uuid4() values, in the order they are drawn: never repeated.
UuidPool == <<"u1", "u2", "u3", "u4", "u5", "u6">>
\* An identifier a client invents (an X-Session-ID the service never issued).
ClientIds == {"c1"}
\* X-Session-ID header absent (or empty: `session_id or ...` treats both alike).
None == "None"
\* app_state.lock unlocked.
Free == "free"
\* The websockets.exceptions module of the installed library: the classes of
\* lines 327 and 332 that it defines.  WebSocketException is in every release;
\* the library is not part of the repository, so a build with and a build
\* without ConnectionRefused are both considered.
Builds == {{"WebSocketException"}, {"WebSocketException", "ConnectionRefused"}}

\* ------------------------------------------------------ program constants
WINDOW_MINUTES == 1
DATA_RETENTION_MINUTES == 30
MAX_AGE_MINUTES == 120

VARIABLES
  now,          \* datetime.now(), in minutes
  Config,       \* the configured limits read from the environment
  sessions,     \* app_state.sessions: session id -> object reference, 0 = absent
  heap,         \* the UserSession objects, by reference (1..Len(heap))
  nextMotion,   \* the next motion id (timestamp + uuid suffix: fresh)
  pc,           \* per generate request: "idle", "connecting", or "awaiting" recv
  tsession,     \* per generate request: the UserSession object it holds
  out,          \* what the handler that just ran did and returns, until its turn ends
  admits,       \* history: per object, requests admitted since its window started
  websockets,   \* the exception classes the installed websockets.exceptions defines
  connections,  \* the generate requests whose WebSocket connection is open
  lock,         \* app_state.lock: its holder, Free when unlocked
  under_lock,   \* history: the step just taken ran inside `async with self.lock`
  cleaner,      \* app_state.cleanup_task: "sleeping" in its loop, or "done"
  connects      \* history: per generate request, its websockets.connect calls

vars == <<now, Config, sessions, heap, nextMotion, pc, tsession, out, admits,
          websockets, connections, lock, under_lock, cleaner, connects>>

\* What no step changes: the configuration and the installed library.
env == <<Config, websockets>>

Tasks == 1..NumTasks
SessionIds == ClientIds \cup {UuidPool[i] : i \in 1..Len(UuidPool)}
Refs == 1..Len(heap)

\* ------------------------------------------------------------- helpers

\* datetime.isoformat(): fixed-width zero-padded fields, compared as strings.
isoformat(t) == <<t \div 100, (t \div 10) % 10, t % 10>>

\* The instant an isoformat string denotes.
fromisoformat(c) == c[1] * 100 + c[2] * 10 + c[3]

\* Python's str comparison on two isoformat strings: lexicographic.
RECURSIVE StrLess(_, _)
StrLess(a, b) ==
  IF b = <<>> THEN FALSE
  ELSE IF a = <<>> THEN TRUE
  ELSE IF Head(a) # Head(b) THEN Head(a) < Head(b)
  ELSE StrLess(Tail(a), Tail(b))

\* A UserSession whose motions default is one dict shared by every instance
\* (a mutable default instead of default_factory): a new session starts with
\* the records of the first.
UserSession_shared(sid, t) ==
  [session_id |-> sid, created_at |-> t, last_activity |-> t,
   motions |-> IF Len(heap) > 0 THEN heap[1].motions ELSE <<>>,
   request_count |-> 0, request_window_start |-> t]

\* The UserSession dataclass, as constructed by get_or_create_session.
UserSession(sid, t) ==
  [session_id |-> sid, created_at |-> t, last_activity |-> t,
   motions |-> <<>>, request_count |-> 0, request_window_start |-> t]

\* What a handler (or a background step) reports.
Resp(op, header, session, status, success, error, code, motion_id) ==
  [op |-> op, header |-> header, session |-> session, status |-> status,
   success |-> success, error |-> error, code |-> code, motion_id |-> motion_id]

\* No handler has just run.
Silent == Resp("", None, 0, 0, FALSE, "", "", 0)

\* A handler runs once the turn of the one before it has ended: a handler's
\* last code and the return of its response are one turn of the event loop.
Ready == out = Silent

\* fastapi.HTTPException(status_code, detail) with a dict detail.
HTTPException(status_code, error, code) ==
  [status_code |-> status_code, isdict |-> TRUE, error |-> error, code |-> code]

\* fastapi.HTTPException(status_code, detail) with a plain string detail.
HTTPExceptionStr(status_code, text) ==
  [status_code |-> status_code, isdict |-> FALSE, error |-> text, code |-> ""]

\* The custom handler: the uniform error envelope.
http_exception_handler(op, header, session, exc) ==
  Resp(op, header, session, exc.status_code, FALSE,
       exc.error,
       IF exc.isdict THEN exc.code ELSE "UNKNOWN",
       0)

\* ------------------------------------------------------------ registry

\* A generator that draws the same value again.
uuid4_repeats == UuidPool[1]

\* str(uuid.uuid4()): a value never drawn before.
uuid4 == UuidPool[Len(heap) + 1]

\* get_or_create_session without the lookup: a session is created whether or
\* not the identifier is registered.
get_or_create_session_dup(session_id) ==
  LET new_session_id == IF session_id # None THEN session_id ELSE uuid4
      s == Len(heap) + 1
  IN [sessions |-> [sessions EXCEPT ![new_session_id] = s],
      heap |-> Append(heap, UserSession(new_session_id, now)),
      session |-> s]

\* get_or_create_session that returns the new session without registering it.
get_or_create_session_unregistered(session_id) ==
  IF session_id # None /\ sessions[session_id] # 0
  THEN LET s == sessions[session_id]
       IN [sessions |-> sessions,
           heap |-> [heap EXCEPT ![s].last_activity = now],
           session |-> s]
  ELSE LET new_session_id == IF session_id # None THEN session_id ELSE uuid4
       IN [sessions |-> sessions,
           heap |-> Append(heap, UserSession(new_session_id, now)),
           session |-> Len(heap) + 1]

\* AppState.get_or_create_session: the new registry, heap and the reference
\* of the session returned.
get_or_create_session(session_id) ==
  IF session_id # None /\ sessions[session_id] # 0
  THEN LET s == sessions[session_id]
       IN [sessions |-> sessions,
           heap |-> [heap EXCEPT ![s].last_activity = now],
           session |-> s]
  ELSE LET new_session_id ==
             IF session_id # None THEN session_id ELSE uuid4
           s == Len(heap) + 1
       IN [sessions |-> [sessions EXCEPT ![new_session_id] = s],
           heap |-> Append(heap, UserSession(new_session_id, now)),
           session |-> s]

\* Whether get_or_create_session(session_id) allocates a session.
Creates(session_id) == session_id = None \/ sessions[session_id] = 0

\* A selection that asks for both limits to be exceeded.
expired_sessions_both ==
  {sid \in SessionIds :
     /\ sessions[sid] # 0
     /\ LET session == heap[sessions[sid]]
        IN /\ now - session.last_activity > DATA_RETENTION_MINUTES
           /\ now - session.created_at > MAX_AGE_MINUTES}

\* The sessions cleanup_expired_sessions selects at the current time.
expired_sessions ==
  {sid \in SessionIds :
     /\ sessions[sid] # 0
     /\ LET session == heap[sessions[sid]]
            inactive_duration == now - session.last_activity
            session_age == now - session.created_at
        IN \/ inactive_duration > DATA_RETENTION_MINUTES
           \/ session_age > MAX_AGE_MINUTES}

\* check_rate_limit counting the request before it decides.
check_rate_limit_counts_rejected(session) ==
  LET window_duration == now - session.request_window_start
      s1 == IF window_duration > WINDOW_MINUTES
            THEN [session EXCEPT !.request_count = 0,
                                 !.request_window_start = now]
            ELSE session
  IN IF s1.request_count >= Config.MAX_REQUESTS_PER_MINUTE
     THEN [session |-> [s1 EXCEPT !.request_count = @ + 1], admit |-> FALSE]
     ELSE [session |-> [s1 EXCEPT !.request_count = @ + 1], admit |-> TRUE]

\* check_rate_limit resetting the window once a full minute has elapsed.
check_rate_limit_reset_early(session) ==
  LET window_duration == now - session.request_window_start
      s1 == IF window_duration >= WINDOW_MINUTES
            THEN [session EXCEPT !.request_count = 0,
                                 !.request_window_start = now]
            ELSE session
  IN IF s1.request_count >= Config.MAX_REQUESTS_PER_MINUTE
     THEN [session |-> s1, admit |-> FALSE]
     ELSE [session |-> [s1 EXCEPT !.request_count = @ + 1], admit |-> TRUE]

\* check_rate_limit comparing with > where the code has >=.
check_rate_limit_late(session) ==
  LET window_duration == now - session.request_window_start
      s1 == IF window_duration > WINDOW_MINUTES
            THEN [session EXCEPT !.request_count = 0,
                                 !.request_window_start = now]
            ELSE session
  IN IF s1.request_count > Config.MAX_REQUESTS_PER_MINUTE
     THEN [session |-> s1, admit |-> FALSE]
     ELSE [session |-> [s1 EXCEPT !.request_count = @ + 1], admit |-> TRUE]

\* AppState.check_rate_limit on a session object: the object after the call
\* and the decision.
check_rate_limit(session) ==
  LET window_duration == now - session.request_window_start
      s1 == IF window_duration > WINDOW_MINUTES
            THEN [session EXCEPT !.request_count = 0,
                                 !.request_window_start = now]
            ELSE session
  IN IF s1.request_count >= Config.MAX_REQUESTS_PER_MINUTE
     THEN [session |-> s1, admit |-> FALSE]
     ELSE [session |-> [s1 EXCEPT !.request_count = @ + 1], admit |-> TRUE]

\* --------------------------------------------------------- motion store

\* seq without its i-th element.
RemoveAt(seq, i) ==
  [j \in 1..(Len(seq) - 1) |-> IF j < i THEN seq[j] ELSE seq[j + 1]]

\* A choice of the record inserted last.
oldest_id_last(motions) == Len(motions)

\* min(session.motions.keys(), key=created_at): the first key, in the dict's
\* insertion order, whose created_at string no other key's is smaller than.
oldest_id(motions) ==
  CHOOSE i \in 1..Len(motions) :
    /\ \A j \in 1..Len(motions) :
         ~StrLess(motions[j].created_at, motions[i].created_at)
    /\ \A j \in 1..(i - 1) :
         StrLess(motions[i].created_at, motions[j].created_at)

\* enforce_motion_limit comparing with > where the code has >=.
enforce_motion_limit_late(session) ==
  IF Len(session.motions) > Config.MAX_STORED_MOTIONS_PER_USER
  THEN [raised |-> FALSE,
        session |-> [session EXCEPT !.motions = RemoveAt(@, 1)]]
  ELSE [raised |-> FALSE, session |-> session]

\* enforce_motion_limit: the session after the call, or ValueError when
\* min() is given no keys.
enforce_motion_limit(session) ==
  IF Len(session.motions) >= Config.MAX_STORED_MOTIONS_PER_USER
  THEN IF Len(session.motions) = 0
       THEN [raised |-> TRUE, session |-> session]
       ELSE [raised |-> FALSE,
             session |-> [session EXCEPT
                            !.motions = RemoveAt(@, oldest_id(@))]]
  ELSE [raised |-> FALSE, session |-> session]

MotionIds(session) == {session.motions[i].motion_id : i \in 1..Len(session.motions)}

\* ------------------------------------------------- remote generation client

\* Textual responses of the remote server: text that is not JSON, a JSON
\* object (each of "error" and "code" present or not), another JSON value.
Absent == "<absent>"
TextMessages ==
  [syntax : {"object"}, error : {Absent, "bad prompt"}, code : {Absent, "INVALID_INPUT"}]
  \cup [syntax : {"malformed", "other"}, error : {Absent}, code : {Absent}]

\* Binary responses: an npz container with or without the required arrays,
\* its frame rate, and whether root_pos is a 2-D array (tolist() gives a
\* list) or a 0-d array (tolist() gives a bare number).
BinaryMessages == [arrays : BOOLEAN, fps : {0, 30}, root_2d : BOOLEAN]

\* dict.get(key, default)
get(value, default) == IF value = Absent THEN default ELSE value

\* An exception in flight: its class and, for an HTTPException, its payload.
Raise(type, http) == [type |-> type, http |-> http]
NoHTTP == HTTPException(0, "", "")

\* What generate_motion_from_remote raises for a str response.
str_response(msg) ==
  IF msg.syntax = "malformed"
  THEN Raise("HTTPException",
             HTTPException(500, "Invalid response from server", "INVALID_RESPONSE"))
  ELSE IF msg.syntax = "object"
  THEN Raise("HTTPException",
             HTTPException(500, get(msg.error, "Unknown error"),
                           get(msg.code, "SERVER_ERROR")))
  ELSE Raise("AttributeError", NoHTTP)

\* The except clauses of generate_motion_from_remote, matched in order.  The
\* expression of a clause is evaluated when the clauses before it did not
\* match: naming a class the module lacks raises AttributeError in place of
\* the exception being handled.
remote_except(exc) ==
  IF exc.type = "TimeoutError"
  THEN Raise("HTTPException",
             HTTPException(504, "Request timeout - generation took too long", "TIMEOUT"))
  ELSE IF "ConnectionRefused" \notin websockets
  THEN Raise("AttributeError", NoHTTP)
  ELSE IF exc.type = "ConnectionRefused"
  THEN Raise("HTTPException",
             HTTPException(503, "Motion generation server unavailable", "SERVER_UNAVAILABLE"))
  ELSE IF exc.type = "WebSocketException"
  THEN Raise("HTTPException", HTTPException(502, "WebSocket error", "WEBSOCKET_ERROR"))
  ELSE exc

\* What websockets.connect raises when no connection is established: OSError
\* (the TCP connection is refused or the host unreachable), TimeoutError
\* (open_timeout), a WebSocketException (the handshake is rejected), and
\* ConnectionRefused where the library defines it.
ConnectErrors ==
  {"OSError", "TimeoutError", "WebSocketException"} \cup (websockets \cap {"ConnectionRefused"})

\* What send and recv raise on an open connection: TimeoutError (WS_TIMEOUT,
\* from asyncio.wait_for) or a WebSocketException (the connection closed).
RecvErrors == {"TimeoutError", "WebSocketException"}

\* `async with websockets.connect(...) as ws`: the open connections after
\* request t entered the block, and after it left it by return or exception.
aenter(conns, t) == conns \cup {t}
aexit_leak(conns, t) == conns
aexit(conns, t) == conns \ {t}

\* What a request did of websockets.connect: the calls it made and the
\* connections these established.  Before its first call:
NoConnects == [calls |-> 0, opened |-> 0]

\* websockets.connect(uri, ...) is called by a request that did c so far.
connect(c) == [c EXCEPT !.calls = @ + 1]

\* The call established a connection.
connected(c) == [c EXCEPT !.opened = @ + 1]

\* An except clause that calls websockets.connect once more before it raises.
reraise_after_retry(c) == connect(c)

\* The except clauses of generate_motion_from_remote and of generate_motion
\* raise or re-raise; none calls websockets.connect again.
reraise(c) == c

\* `async with self.lock` around a block that does not suspend: the lock
\* when the block is entered by `who`, and when it is left.
acquire(who) == who
release(l) == Free

\* The except clauses of generate_motion: what reaches the exception handler.
generate_except(exc) ==
  IF exc.type = "HTTPException" THEN exc.http
  ELSE HTTPException(500, "Failed to generate motion", "GENERATION_FAILED")

\* convert_npz_to_motion_data: the record, or the exception it raises.
convert_npz_to_motion_data(npz) ==
  IF ~npz.arrays THEN [raised |-> "KeyError", motion_data |-> <<>>]
  ELSE IF npz.fps = 0 THEN [raised |-> "ZeroDivisionError", motion_data |-> <<>>]
  ELSE [raised |-> "",
        motion_data |-> [motion_id |-> nextMotion,
                         created_at |-> isoformat(now),
                         root_pos_is_list |-> npz.root_2d]]

\* MotionData(**motion_data): pydantic refuses a root_pos that is not a list.
MotionDataValid(motion_data) == motion_data.root_pos_is_list

\* ---------------------------------------------------------------- Init

\* The state after construction, the limits being among the given ones.
Start(ceilings, stored) ==
  /\ now = 0
  /\ Config \in [MAX_REQUESTS_PER_MINUTE : ceilings,
                 MAX_STORED_MOTIONS_PER_USER : stored]
  /\ sessions = [sid \in SessionIds |-> 0]
  /\ heap = <<>>
  /\ nextMotion = 1
  /\ pc = [t \in Tasks |-> "idle"]
  /\ tsession = [t \in Tasks |-> 0]
  /\ out = Silent
  /\ admits = <<>>
  /\ websockets \in Builds
  /\ connections = {}
  /\ lock = Free
  /\ under_lock = FALSE
  /\ cleaner = "sleeping"
  /\ connects = [t \in Tasks |-> NoConnects]

\* The X-Session-ID values a client can send: none, one it invents, or any
\* uuid the service has drawn so far.
Headers == {None} \cup ClientIds \cup {UuidPool[r] : r \in Refs}

\* A UserSession object no reference is left to: Python frees it.
Freed == UserSession(None, 0)

\* Heap h with the objects freed that neither registry reg nor a request of
\* held refers to.
Collect(h, reg, held) ==
  [r \in 1..Len(h) |->
     IF (\E sid \in SessionIds : reg[sid] = r) \/ (\E t \in Tasks : held[t] = r)
     THEN h[r] ELSE Freed]

\* The history of admissions of an object, after a check_rate_limit call that
\* took it from `before` to `after` with decision `admit`.
Admitted(before, after, admit, old) ==
  (IF after.request_window_start # before.request_window_start THEN 0 ELSE old)
  + (IF admit THEN 1 ELSE 0)

\* The admission histories of the objects of heap h that are not freed.
Live(adm, h) == [r \in 1..Len(h) |-> IF h[r] = Freed THEN 0 ELSE adm[r]]

\* ------------------------------------------------------------- the clock

Tick(t) ==
  /\ Ready
  /\ t > now
  /\ now' = t
  /\ under_lock' = FALSE
  /\ UNCHANGED <<out, env, sessions, heap, nextMotion, pc, tsession, admits,
                 connections, lock, cleaner, connects>>

\* ------------------------------------------------- POST /api/generate

\* generate_motion up to its suspension: get_or_create_session, then
\* check_rate_limit; a rejected request ends here with 429, an admitted one
\* goes on to generate_motion_from_remote and calls websockets.connect.
GenerateStart(t, session_id) ==
  /\ Ready
  /\ pc[t] = "idle"
  /\ lock = Free
  /\ lock' = release(acquire("generate"))
  /\ under_lock' = TRUE
  /\ LET g == get_or_create_session(session_id)
         s == g.session
         r == check_rate_limit(g.heap[s])
         old == IF Creates(session_id) THEN 0 ELSE admits[s]
         adm == IF Creates(session_id) THEN Append(admits, 0) ELSE admits
     IN /\ sessions' = g.sessions
        /\ heap' = [g.heap EXCEPT ![s] = r.session]
        /\ admits' = [adm EXCEPT ![s] = Admitted(g.heap[s], r.session, r.admit, old)]
        /\ IF r.admit
           THEN /\ pc' = [pc EXCEPT ![t] = "connecting"]
                /\ tsession' = [tsession EXCEPT ![t] = s]
                /\ connects' = [connects EXCEPT ![t] = connect(@)]
                /\ out' = Resp("generate_admitted", session_id, s, 0, FALSE, "", "", 0)
           ELSE /\ out' = http_exception_handler("generate", session_id, s,
                            HTTPException(429, "Rate limit exceeded", "RATE_LIMIT"))
                /\ UNCHANGED <<pc, tsession, connects>>
  /\ UNCHANGED <<now, env, nextMotion, connections, cleaner>>

\* The request leaves generate_motion, its session object being h_s by then,
\* with response resp.
GenerateEnd(t, h_s, resp) ==
  /\ pc' = [pc EXCEPT ![t] = "idle"]
  /\ heap' = [heap EXCEPT ![tsession[t]] = h_s]
  /\ tsession' = [tsession EXCEPT ![t] = 0]
  /\ out' = resp
  /\ under_lock' = FALSE
  /\ UNCHANGED <<admits, lock, cleaner>>

\* The request leaves generate_motion with exception exc.
GenerateRaise(t, h_s, exc) ==
  /\ GenerateEnd(t, h_s,
                 http_exception_handler("generate", h_s.session_id, tsession[t],
                                        generate_except(exc)))
  /\ connects' = [connects EXCEPT ![t] = reraise(@)]

\* websockets.connect establishes the connection: the block is entered.
Connect(t) ==
  /\ Ready
  /\ pc[t] = "connecting"
  /\ pc' = [pc EXCEPT ![t] = "awaiting"]
  /\ connections' = aenter(connections, t)
  /\ connects' = [connects EXCEPT ![t] = connected(@)]
  /\ under_lock' = FALSE
  /\ UNCHANGED <<now, env, sessions, heap, nextMotion, tsession, out, admits,
                 lock, cleaner>>

\* websockets.connect fails: no connection was opened, the block is not
\* entered.
ConnectFail(t, type) ==
  /\ Ready
  /\ pc[t] = "connecting"
  /\ type \in ConnectErrors
  /\ GenerateRaise(t, heap[tsession[t]], remote_except(Raise(type, NoHTTP)))
  /\ UNCHANGED <<now, env, sessions, nextMotion, connections>>

\* ws.recv() does not answer within WS_TIMEOUT, or the connection breaks
\* during send or recv.
RecvFail(t, type) ==
  /\ Ready
  /\ pc[t] = "awaiting"
  /\ type \in RecvErrors
  /\ GenerateRaise(t, heap[tsession[t]], remote_except(Raise(type, NoHTTP)))
  /\ connections' = aexit(connections, t)
  /\ UNCHANGED <<now, env, sessions, nextMotion>>

\* ws.recv() returns a str.
RecvText(t, msg) ==
  /\ Ready
  /\ pc[t] = "awaiting"
  /\ msg \in TextMessages
  /\ GenerateRaise(t, heap[tsession[t]], remote_except(str_response(msg)))
  /\ connections' = aexit(connections, t)
  /\ UNCHANGED <<now, env, sessions, nextMotion>>

\* ws.recv() returns bytes: conversion, enforce_motion_limit, the insert and
\* the construction of the response, all without suspension.
RecvBinary(t, npz) ==
  /\ Ready
  /\ pc[t] = "awaiting"
  /\ npz \in BinaryMessages
  /\ LET s == tsession[t]
         c == convert_npz_to_motion_data(npz)
         e == enforce_motion_limit(heap[s])
         stored == [e.session EXCEPT !.motions = Append(@, c.motion_data)]
     IN IF c.raised # ""
        THEN /\ GenerateRaise(t, heap[s], Raise(c.raised, NoHTTP))
             /\ UNCHANGED nextMotion
        ELSE IF e.raised
        THEN /\ GenerateRaise(t, heap[s], Raise("ValueError", NoHTTP))
             /\ UNCHANGED nextMotion
        ELSE /\ nextMotion' = nextMotion + 1
             /\ IF MotionDataValid(c.motion_data)
                THEN /\ GenerateEnd(t, stored,
                                    Resp("generate", stored.session_id, s, 200, TRUE,
                                         "", "", c.motion_data.motion_id))
                     /\ UNCHANGED connects
                ELSE GenerateRaise(t, stored, Raise("ValidationError", NoHTTP))
  /\ connections' = aexit(connections, t)
  /\ UNCHANGED <<now, env, sessions>>

\* --------------------------------------------------- the other endpoints

\* session_id in app_state.sessions (the handlers below, without the lock).
Known(session_id) == session_id # None /\ sessions[session_id] # 0

\* GET /api/motions
list_motions(session_id) ==
  /\ Ready
  /\ session_id \in Headers
  /\ IF ~Known(session_id)
     THEN /\ out' = Resp("list_motions", session_id, 0, 200, TRUE, "", "", 0)
          /\ UNCHANGED heap
     ELSE LET s == sessions[session_id]
          IN /\ heap' = [heap EXCEPT ![s].last_activity = now]
             /\ out' = Resp("list_motions", session_id, s, 200, TRUE, "", "", 0)
  /\ under_lock' = FALSE
  /\ UNCHANGED <<now, env, sessions, nextMotion, pc, tsession, admits,
                 connections, lock, cleaner, connects>>

\* What get_motion answers: the record's id, or the 404 it raises.
get_motion_result(motion_id, session_id) ==
  IF ~Known(session_id)
  THEN http_exception_handler("get_motion", session_id, 0,
                              HTTPExceptionStr(404, "Session not found"))
  ELSE IF motion_id \notin MotionIds(heap[sessions[session_id]])
  THEN http_exception_handler("get_motion", session_id, sessions[session_id],
                              HTTPExceptionStr(404, "Motion not found"))
  ELSE Resp("get_motion", session_id, sessions[session_id], 200, TRUE, "", "",
            motion_id)

\* GET /api/motions/{motion_id}
get_motion(motion_id, session_id) ==
  /\ Ready
  /\ session_id \in Headers
  /\ out' = get_motion_result(motion_id, session_id)
  /\ IF ~Known(session_id)
     THEN UNCHANGED heap
     ELSE heap' = [heap EXCEPT ![sessions[session_id]].last_activity = now]
  /\ under_lock' = FALSE
  /\ UNCHANGED <<now, env, sessions, nextMotion, pc, tsession, admits,
                 connections, lock, cleaner, connects>>

\* DELETE /api/motions/{motion_id}
delete_motion(motion_id, session_id) ==
  /\ Ready
  /\ session_id \in Headers
  /\ IF ~Known(session_id)
     THEN /\ out' = http_exception_handler("delete_motion", session_id, 0,
                       HTTPExceptionStr(404, "Session not found"))
          /\ UNCHANGED heap
     ELSE LET s == sessions[session_id]
              keep(m) == m.motion_id # motion_id
          IN IF motion_id \notin MotionIds(heap[s])
             THEN /\ out' = http_exception_handler("delete_motion", session_id, s,
                               HTTPExceptionStr(404, "Motion not found"))
                  /\ UNCHANGED heap
             ELSE /\ heap' = [heap EXCEPT ![s].motions = SelectSeq(@, keep)]
                  /\ out' = Resp("delete_motion", session_id, s, 200, TRUE, "", "",
                                 motion_id)
  /\ under_lock' = FALSE
  /\ UNCHANGED <<now, env, sessions, nextMotion, pc, tsession, admits,
                 connections, lock, cleaner, connects>>

\* POST /api/session
create_session ==
  /\ Ready
  /\ lock = Free
  /\ lock' = release(acquire("create_session"))
  /\ under_lock' = TRUE
  /\ LET g == get_or_create_session(None)
     IN /\ sessions' = g.sessions
        /\ heap' = g.heap
        /\ admits' = Append(admits, 0)
        /\ out' = Resp("create_session", None, g.session, 200, TRUE, "", "", 0)
  /\ UNCHANGED <<now, env, nextMotion, pc, tsession, connections, cleaner,
                 connects>>

\* ------------------------------------------------------ background cleanup

\* AppState.cleanup_expired_sessions: select, then delete, under the lock.
\* The registry after the sweep.
cleanup_expired_sessions ==
  [sid \in SessionIds |-> IF sid \in expired_sessions THEN 0 ELSE sessions[sid]]

\* The registries a sweep can leave when an exception ends it: any part of
\* the selected sessions removed.
cleanup_interrupted ==
  {[sid \in SessionIds |-> IF sid \in removed THEN 0 ELSE sessions[sid]] :
     removed \in SUBSET expired_sessions}

\* A loop that any exception ends.
periodic_cleanup_except_break(exc) ==
  IF exc = "CancelledError" THEN "cancelled" ELSE "done"

\* The except clauses of periodic_cleanup: where the task is after exc.
periodic_cleanup_except(exc) ==
  IF exc = "CancelledError" THEN "cancelled" ELSE "sleeping"

\* periodic_cleanup: one turn of the loop, once its sleep is over.  The sweep
\* returns (exc is "") or raises exc.
periodic_cleanup(exc) ==
  /\ Ready
  /\ cleaner = "sleeping"
  /\ lock = Free
  /\ lock' = release(acquire("cleanup"))
  /\ under_lock' = TRUE
  /\ IF exc = ""
     THEN /\ sessions' = cleanup_expired_sessions
          /\ out' = Resp("cleanup", None, 0, 0, TRUE, "", "", 0)
          /\ cleaner' = "sleeping"
     ELSE /\ sessions' \in cleanup_interrupted
          /\ out' = Resp("cleanup_failed", None, 0, 0, FALSE, exc, "", 0)
          /\ cleaner' = periodic_cleanup_except(exc)
  /\ UNCHANGED <<now, env, heap, nextMotion, pc, tsession, admits, connections,
                 connects>>

\* A cancellation that lands between two deletions of a sweep: one of
\* several selected sessions is removed.
cancelled_sweep_partial ==
  IF Cardinality(expired_sessions) < 2 THEN sessions
  ELSE [sessions EXCEPT ![CHOOSE sid \in expired_sessions : TRUE] = 0]

\* What a cancellation leaves of the registry: the task is cancelled where it
\* is suspended, in asyncio.sleep, between two sweeps.
cancelled_sweep == sessions

\* lifespan at shutdown: cleanup_task.cancel(), then await cleanup_task.  The
\* CancelledError is raised in the task at its sleep.
lifespan_shutdown ==
  /\ Ready
  /\ cleaner = "sleeping"
  /\ cleaner' = periodic_cleanup_except("CancelledError")
  /\ sessions' = cancelled_sweep
  /\ out' = Resp("shutdown", None, 0, 0, TRUE, "", "", 0)
  /\ under_lock' = FALSE
  /\ UNCHANGED <<now, env, heap, nextMotion, pc, tsession, admits, connections,
                 lock, connects>>

\* The turn of the event loop ends: the response of the handler that ran is
\* sent, the objects it left without a reference are freed, and the record of
\* the connect calls of a request that ended is dropped.
Respond ==
  /\ ~Ready
  /\ out' = Silent
  /\ heap' = Collect(heap, sessions, tsession)
  /\ admits' = Live(admits, Collect(heap, sessions, tsession))
  /\ connects' = [t \in Tasks |-> IF pc[t] = "idle" THEN NoConnects ELSE connects[t]]
  /\ under_lock' = FALSE
  /\ UNCHANGED <<now, env, sessions, nextMotion, pc, tsession, connections, lock,
                 cleaner>>

\* ----------------------------------------------------------------- Next

\* POST /api/generate from the requests T, with at most objs sessions and
\* motions motion records ever created.
Generate(T, objs, motions) ==
  \/ \E t \in T, session_id \in Headers :
       /\ Creates(session_id) => Len(heap) < objs
       /\ GenerateStart(t, session_id)
  \/ \E t \in T : Connect(t)
  \/ \E t \in T, type \in ConnectErrors : ConnectFail(t, type)
  \/ \E t \in T, type \in RecvErrors : RecvFail(t, type)
  \/ \E t \in T, msg \in TextMessages : RecvText(t, msg)
  \/ \E t \in T, npz \in BinaryMessages :
       /\ nextMotion <= motions
       /\ RecvBinary(t, npz)

\* The endpoints that read or delete the motions of a session.
Browse ==
  \/ \E session_id \in Headers : list_motions(session_id)
  \/ \E session_id \in Headers, motion_id \in 1..(nextMotion - 1) :
       get_motion(motion_id, session_id)
  \/ \E session_id \in Headers, motion_id \in 1..(nextMotion - 1) :
       delete_motion(motion_id, session_id)

\* The registry: concurrent requests on at most MaxObjs sessions, sweeps that
\* expire them while requests are suspended, identifiers supplied again.
Init == Start({MaxCeiling}, {1})
Next ==
  \/ \E t \in IdleTimes : Tick(t)
  \/ Generate(Tasks, MaxObjs, 1)
  \/ Browse
  \/ Len(heap) < MaxObjs /\ create_session
  \/ periodic_cleanup("")
  \/ Respond
Spec == Init /\ [][Next]_vars

\* The rate limiter: every ceiling up to MaxCeiling, concurrent requests on
\* one session, inside a window, at its end and after it.
InitLimiter == Start(0..MaxCeiling, {1})
NextLimiter ==
  \/ \E t \in WindowTimes : Tick(t)
  \/ Generate(Tasks, 1, 1)
  \/ Browse
  \/ periodic_cleanup("")
  \/ Respond
SpecLimiter == InitLimiter /\ [][NextLimiter]_vars

\* The motion store: every maximum size up to MaxStored, concurrent requests
\* on one session, more records than the store holds.
InitStore == Start({MaxCeiling}, 0..MaxStored)
NextStore ==
  \/ \E t \in IdleTimes : Tick(t)
  \/ Generate(Tasks, 1, MaxMotions)
  \/ Browse
  \/ periodic_cleanup("")
  \/ Respond
SpecStore == InitStore /\ [][NextStore]_vars

\* The sweep: sessions created and touched at every boundary of the two
\* limits, by clients whose requests the rate limiter rejects.
InitSweep == Start({0}, {1})
NextSweep ==
  \/ \E t \in TimePoints : Tick(t)
  \/ \E session_id \in Headers :
       /\ Creates(session_id) => Len(heap) < MaxObjs
       /\ GenerateStart(1, session_id)
  \/ \E session_id \in Headers : list_motions(session_id)
  \/ Len(heap) < MaxObjs /\ create_session
  \/ \E exc \in {"", "Exception"} : periodic_cleanup(exc)
  \/ lifespan_shutdown
  \/ Respond
SpecSweep == InitSweep /\ [][NextSweep]_vars

\* The sweep under the event loop's scheduling: a task that is ready to run
\* runs (the sleep of periodic_cleanup ends and its turn comes, however many
\* requests are served), and a turn that has begun ends.
SpecCleaner ==
  /\ InitSweep
  /\ [][NextSweep]_vars
  /\ SF_vars(\E exc \in {"", "Exception"} : periodic_cleanup(exc))
  /\ WF_vars(Respond)

\* ================================================================ claims

\* The step just taken ran get_or_create_session for the X-Session-ID
\* out.header and got the object out.session: a generate request that was
\* admitted, or one that was rejected.
Rejected == out.op = "generate" /\ out.code = "RATE_LIMIT"
Started == out.op = "generate_admitted" \/ Rejected

\* C1: in every reachable state, of every session, request_count equals the
\* number of requests admitted since its window started and is at most the
\* configured ceiling; and a request is rejected only when request_count has
\* reached the ceiling, so exactly the first `ceiling` requests of a window
\* are admitted.
C1_RateLimit ==
  /\ \A r \in Refs :
       /\ heap[r].request_count = admits[r]
       /\ heap[r].request_count <= Config.MAX_REQUESTS_PER_MINUTE
  /\ Rejected =>
       heap[out.session].request_count = Config.MAX_REQUESTS_PER_MINUTE

\* A request is rejected on a session that has admitted MaxCeiling requests
\* in this window, one of them still waiting for the remote server.
C1_Witness ==
  /\ Rejected
  /\ Config.MAX_REQUESTS_PER_MINUTE = MaxCeiling
  /\ heap[out.session].request_count = MaxCeiling
  /\ \E t \in Tasks : pc[t] # "idle" /\ tsession[t] = out.session

\* C2: in every reachable state no session's motion store holds more records
\* than the configured maximum.
C2_StoreBounded ==
  \A r \in Refs : Len(heap[r].motions) <= Config.MAX_STORED_MOTIONS_PER_USER

\* More records were stored than the store holds, the store is full, and a
\* second request on the same session is still waiting for the remote server.
C2_Witness ==
  /\ Config.MAX_STORED_MOTIONS_PER_USER = MaxStored
  /\ nextMotion > MaxStored + 1
  /\ \E r \in Refs :
       /\ Len(heap[r].motions) = MaxStored
       /\ \E t \in Tasks : pc[t] # "idle" /\ tsession[t] = r

\* C3: a step that adds a record to a store holding at least the configured
\* maximum removes exactly one record, one whose created_at no record present
\* before the insert is earlier than, and appends the new one; a step that
\* adds a record to a store below the maximum removes none.
C3_EvictOldest ==
  [][\A r \in Refs :
       LET before == heap[r].motions
           after == heap'[r].motions
       IN (\E i \in 1..Len(after) : after[i].motion_id \notin MotionIds(heap[r])) =>
            IF Len(before) >= Config.MAX_STORED_MOTIONS_PER_USER
            THEN \E i \in 1..Len(before) :
                   /\ \A j \in 1..Len(before) :
                        fromisoformat(before[i].created_at)
                          <= fromisoformat(before[j].created_at)
                   /\ after = Append(RemoveAt(before, i), after[Len(after)])
            ELSE after = Append(before, after[Len(after)])]_vars

\* A request has just stored record MaxStored + 1 in a store of MaxStored
\* records, whose oldest is now record 2, created later than record 1 was.
C3_Witness ==
  /\ out.op = "generate" /\ out.success
  /\ Config.MAX_STORED_MOTIONS_PER_USER = MaxStored
  /\ out.motion_id = MaxStored + 1
  /\ LET m == heap[out.session].motions
     IN /\ Len(m) = MaxStored
        /\ m[1].motion_id = 2
        /\ fromisoformat(m[1].created_at) > 0

\* C4 as stated: get_or_create_session called with an identifier that is not
\* in the registry returns a session whose identifier is not the one supplied.
C4_FreshForUnknown ==
  [][(Started' /\ out'.header # None /\ ~Known(out'.header)) =>
       heap'[out'.session].session_id # out'.header]_vars

\* C4 amended: get_or_create_session called with no identifier allocates a
\* session under a freshly generated identifier, one never issued or supplied
\* before; called with an identifier that is not in the registry it allocates
\* a session under that very identifier; either way the session is new,
\* registered and returned.
C4_NewSession ==
  [][((Started' \/ out'.op = "create_session") /\ ~Known(out'.header)) =>
       LET s == out'.session
           id == heap'[s].session_id
       IN /\ s = Len(heap) + 1
          /\ Len(heap') = Len(heap) + 1
          /\ heap'[s].created_at = now
          /\ heap'[s].last_activity = now
          /\ heap'[s].motions = <<>>
          /\ sessions[id] = 0
          /\ sessions' = [sessions EXCEPT ![id] = s]
          /\ IF out'.header = None THEN id \notin Headers ELSE id = out'.header]_vars

\* A request supplies an identifier whose session has expired while another
\* request still holds it: a second session is registered under it.
C4_Witness ==
  /\ Started
  /\ out.header \in ClientIds
  /\ sessions[out.header] = out.session
  /\ \E t \in Tasks :
       /\ pc[t] # "idle"
       /\ tsession[t] # out.session
       /\ heap[tsession[t]].session_id = out.header

\* C5: get_or_create_session called with an identifier that is in the
\* registry returns the record registered under it, with last_activity set
\* to the time of the call and nothing else of it changed, and leaves the
\* registry as it was: no session is added.
C5_KnownId ==
  [][(Started' /\ Known(out'.header)) =>
       LET s == sessions[out'.header]
       IN /\ out'.session = s
          /\ sessions' = sessions
          /\ Len(heap') = Len(heap)
          /\ heap'[s].last_activity = now
          /\ heap'[s].session_id = out'.header
          /\ heap'[s].created_at = heap[s].created_at
          /\ heap'[s].motions = heap[s].motions]_vars

\* Every request in flight holds the one record registered under the
\* identifier they all supplied, refreshed after its creation.
C5_Witness ==
  /\ Started
  /\ Known(out.header)
  /\ \A t \in Tasks : pc[t] # "idle" /\ tsession[t] = sessions[out.header]
  /\ heap[out.session].last_activity > heap[out.session].created_at

\* The identifiers in the registry.
Registered == {sid \in SessionIds : sessions[sid] # 0}

\* C6: each get_or_create_session call made with no identifier, by
\* create_session or by a generate request, returns a session that did not
\* exist, under an identifier that was never issued or supplied before, and
\* adds exactly one entry to the registry; so N such calls with no sweep in
\* between return N distinct sessions and grow the registry by N.
C6_DistinctNew ==
  [][((out'.op = "create_session" \/ Started') /\ out'.header = None) =>
       LET s == out'.session
           id == heap'[s].session_id
       IN /\ s \notin Refs
          /\ id \notin Headers
          /\ sessions'[id] = s
          /\ Cardinality(Registered') = Cardinality(Registered) + 1]_vars

\* MaxObjs sessions were created with no identifier, the last one by
\* create_session, and the registry holds them all.
C6_Witness ==
  /\ out.op = "create_session"
  /\ Cardinality(Registered) = MaxObjs
  /\ Registered \cap ClientIds = {}

\* C7: cleanup_expired_sessions run at time now leaves in the registry
\* exactly the sessions that were registered before it, idle for at most the
\* retention window and aged at most two hours, each under the record it had.
C7_Sweep ==
  [][out'.op = "cleanup" =>
       \A sid \in SessionIds :
         sessions'[sid] =
           IF /\ sessions[sid] # 0
              /\ now - heap[sessions[sid]].last_activity <= 30
              /\ now - heap[sessions[sid]].created_at <= 120
           THEN sessions[sid]
           ELSE 0]_vars

\* A sweep at minute 121 has removed a session created at minute 0 and
\* touched at minute 121, and kept one that is exactly two hours old.
C7_Witness ==
  /\ out.op = "cleanup"
  /\ now = 121
  /\ \E r \in Refs :
       /\ heap[r].session_id # None
       /\ sessions[heap[r].session_id] # r
       /\ heap[r].created_at = 0
       /\ heap[r].last_activity = 121
  /\ \E sid \in Registered : heap[sessions[sid]].created_at = 1

\* A get for motion_id under session_id answers not-found.
NotFound(session_id, motion_id) == get_motion_result(motion_id, session_id).status = 404

\* C8: the records a session holds when a sweep removes it are not found
\* under its identifier after the sweep, and a record that has been created
\* and is not found under an identifier is never found under it later,
\* whatever requests supply that identifier.
C8_SweptUnreachable ==
  [][\A sid \in SessionIds \ {None} : \A motion_id \in 1..(nextMotion - 1) :
       /\ ( /\ out'.op = "cleanup"
            /\ sessions[sid] # 0
            /\ sessions'[sid] = 0 ) => NotFound(sid, motion_id)'
       /\ NotFound(sid, motion_id) => NotFound(sid, motion_id)']_vars

\* A get under an identifier that was swept and registered again answers
\* not-found, and every record created so far is owned by the swept session,
\* still held by a request in flight.
C8_Witness ==
  /\ out.op = "get_motion"
  /\ out.status = 404
  /\ Known(out.header)
  /\ nextMotion > 1
  /\ \E t \in Tasks :
       /\ pc[t] # "idle"
       /\ tsession[t] # sessions[out.header]
       /\ heap[tsession[t]].session_id = out.header
       /\ MotionIds(heap[tsession[t]]) = 1..(nextMotion - 1)

\* C9 as stated: a generate call that ends in an error leaves every motion
\* store as it was.
C9_ErrorLeavesStore ==
  [][(out'.op = "generate" /\ ~out'.success) =>
       \A r \in Refs : heap'[r].motions = heap[r].motions]_vars

\* C10 as stated: a textual answer that is an object with fields error and
\* code ends the generate call with the envelope success false, that error,
\* that code, and creates no record.
C10_RemoteError ==
  [][\A t \in Tasks : \A msg \in TextMessages :
       ( /\ msg.syntax = "object"
         /\ msg.error # Absent
         /\ msg.code # Absent
         /\ RecvText(t, msg) ) =>
           /\ out'.op = "generate"
           /\ ~out'.success
           /\ out'.error = msg.error
           /\ out'.code = msg.code
           /\ nextMotion' = nextMotion
           /\ \A r \in Refs : heap'[r].motions = heap[r].motions]_vars

\* C11 as stated: a textual answer that is not an error object, whether it
\* is not well-formed or is a well-formed value of another kind, ends the
\* generate call with code INVALID_RESPONSE.
C11_UnparsableText ==
  [][\A t \in Tasks : \A msg \in TextMessages :
       (msg.syntax # "object" /\ RecvText(t, msg)) =>
          out'.code = "INVALID_RESPONSE"]_vars

\* C12 as stated: a failure to establish the connection ends the generate
\* call with 503 SERVER_UNAVAILABLE, a failure of the open connection with
\* 502, and the expiry of the response deadline with 504 TIMEOUT.
C12_TransportKinds ==
  [][\A t \in Tasks :
       /\ \A type \in ConnectErrors \ {"TimeoutError", "WebSocketException"} :
            ConnectFail(t, type) =>
              out'.status = 503 /\ out'.code = "SERVER_UNAVAILABLE"
       /\ RecvFail(t, "WebSocketException") =>
            out'.status = 502 /\ out'.code = "WEBSOCKET_ERROR"
       /\ RecvFail(t, "TimeoutError") =>
            out'.status = 504 /\ out'.code = "TIMEOUT"]_vars

\* C13: a connection is open only for a generate call that is still inside
\* generate_motion_from_remote: a call that has returned or raised, whatever
\* the outcome, holds none.
C13_ConnectionsClosed ==
  connections \subseteq {t \in Tasks : pc[t] = "awaiting"}

\* A second call on connections that were opened has ended, this one with
\* the record it stored, and no connection is open.
C13_Witness ==
  /\ out.op = "generate"
  /\ out.success
  /\ nextMotion > 2
  /\ connections = {}

\* C14 as stated: every operation on an existing session (generate, list,
\* get, delete) sets its last_activity to the time of the operation, and
\* last_activity never decreases.
C14_TouchOnAccess ==
  [][/\ ( /\ out'.op \in {"list_motions", "get_motion", "delete_motion",
                          "generate_admitted"} \/ Rejected'
          /\ out'.session \in Refs ) =>
            heap'[out'.session].last_activity = now
     /\ \A r \in Refs :
          heap'[r] # Freed => heap'[r].last_activity >= heap[r].last_activity]_vars

\* C15 as stated: a step that inserts or deletes a session or writes a
\* session's last_activity runs inside `async with self.lock`, and the lock
\* is free whenever a task is suspended.
C15_WritesUnderLock ==
  [][/\ ( \/ sessions' # sessions
          \/ Len(heap') > Len(heap)
          \/ \E r \in Refs : /\ heap'[r] # Freed
                             /\ heap'[r].last_activity # heap[r].last_activity )
          => under_lock'
     /\ lock' = Free]_vars

\* A sweep has just been invoked, and a sweep has just failed.
SweepInvoked == out.op \in {"cleanup", "cleanup_failed"}
SweepFailed == out.op = "cleanup_failed"

\* C16: after a sweep that failed, periodic_cleanup is still in its loop and
\* a sweep is invoked again, unless the task is cancelled first.
C16_LoopContinues ==
  [](SweepFailed =>
       /\ cleaner = "sleeping"
       /\ <>(~SweepInvoked /\ <>(SweepInvoked \/ cleaner = "cancelled")))

\* A sweep has failed with sessions left to remove, and the task is back in
\* its sleep.
C16_Witness ==
  /\ SweepFailed
  /\ cleaner = "sleeping"
  /\ expired_sessions # {}

\* C17: the cancellation at shutdown ends the loop, leaves the lock free and
\* the registry with either all or none of the sessions a sweep would remove;
\* no sweep runs afterwards.
C17_Cancel ==
  [][/\ out'.op = "shutdown" =>
          /\ cleaner' = "cancelled"
          /\ lock' = Free
          /\ sessions' = sessions \/ sessions' = cleanup_expired_sessions
     /\ cleaner = "cancelled" =>
          /\ cleaner' = "cancelled"
          /\ sessions' = sessions \/ ~SweepInvoked']_vars

\* The loop was cancelled while two registered sessions were due for
\* removal: both are still registered.
C17_Witness ==
  /\ out.op = "shutdown"
  /\ cleaner = "cancelled"
  /\ Cardinality(expired_sessions) >= 2

\* C18 as stated: when a generate call returns success, a get for the motion
\* id it returns, under the identifier of the call's session, finds the
\* record.
C18_StoredWhereRegistered ==
  [][\A sid \in SessionIds : \A motion_id \in 1..nextMotion :
       ( /\ out'.op = "generate"
         /\ out'.success
         /\ out'.header = sid
         /\ out'.motion_id = motion_id ) => ~NotFound(sid, motion_id)']_vars

\* The session object as check_rate_limit finds it in the step being taken:
\* the registered one, or the one get_or_create_session has just built.
BeforeCheck ==
  IF out'.session \in Refs THEN heap[out'.session]
  ELSE UserSession(heap'[out'.session].session_id, now)

\* C19 as stated: a rejection by check_rate_limit leaves request_count and
\* request_window_start as they were before the call.
C19_RejectUnchanged ==
  [][Rejected' =>
       /\ heap'[out'.session].request_count = BeforeCheck.request_count
       /\ heap'[out'.session].request_window_start
            = BeforeCheck.request_window_start]_vars

\* C19 amended: with a ceiling of at least 1 a rejection leaves request_count
\* and request_window_start as they were; with a ceiling of 0 a rejection
\* leaves request_count at 0 and, when more than a minute has passed since
\* request_window_start, sets request_window_start to the time of the call.
C19_RejectState ==
  [][Rejected' =>
       LET after == heap'[out'.session]
           expired == now - BeforeCheck.request_window_start > WINDOW_MINUTES
       IN /\ after.request_count = BeforeCheck.request_count
          /\ after.request_window_start =
               IF Config.MAX_REQUESTS_PER_MINUTE = 0 /\ expired
               THEN now
               ELSE BeforeCheck.request_window_start]_vars

\* With a ceiling of 0 a request was rejected after the window had expired:
\* the window of a session created at minute 0 now starts later.
C19_Witness ==
  /\ Rejected
  /\ Config.MAX_REQUESTS_PER_MINUTE = 0
  /\ heap[out.session].created_at = 0
  /\ heap[out.session].request_window_start = now
  /\ now > WINDOW_MINUTES

\* C20: check_rate_limit called more than one minute after
\* request_window_start sets the window start to the time of the call and,
\* with a ceiling of at least 1, admits the request and leaves request_count
\* at 1; called at most one minute after it, it leaves the window start.
C20_WindowReset ==
  [][(Started' /\ out'.session \in Refs) =>
       LET before == heap[out'.session]
           after == heap'[out'.session]
       IN IF now - before.request_window_start > WINDOW_MINUTES
          THEN /\ after.request_window_start = now
               /\ Config.MAX_REQUESTS_PER_MINUTE >= 1 =>
                    out'.op = "generate_admitted" /\ after.request_count = 1
          ELSE after.request_window_start = before.request_window_start]_vars

\* A request was admitted into a new window of a session on which an earlier
\* admitted request is still in flight: the count is 1 again.
C20_Witness ==
  /\ out.op = "generate_admitted"
  /\ Config.MAX_REQUESTS_PER_MINUTE >= 1
  /\ heap[out.session].created_at = 0
  /\ heap[out.session].request_window_start = now
  /\ now > WINDOW_MINUTES
  /\ heap[out.session].request_count = 1
  /\ \A t \in Tasks : pc[t] # "idle" /\ tsession[t] = out.session

\* C21 as stated: a generate call that the rate limiter rejects opens no
\* connection; a call that is admitted has, when it ends, opened exactly one
\* connection with exactly one call of websockets.connect, whatever failed.
C21_ExactlyOneOpened ==
  [][/\ Rejected' =>
          /\ connects' = connects
          /\ connections' = connections
          /\ \A t \in Tasks : pc'[t] = "idle" => connects'[t] = NoConnects
     /\ \A t \in Tasks :
          (pc[t] # "idle" /\ pc'[t] = "idle") =>
             connects'[t].calls = 1 /\ connects'[t].opened = 1]_vars

\* C21: a generate call that the rate limiter rejects calls websockets.connect
\* not at all and opens no connection; a call that is admitted calls it
\* exactly once, in the step that admits it, and never again, whatever fails
\* later; that one call opens one connection, or none when it fails, so a
\* call that ends has opened at most one connection and holds none.
C21_OneConnect ==
  [][/\ Rejected' =>
          /\ connects' = connects
          /\ connections' = connections
          /\ \A t \in Tasks : pc'[t] = "idle" => connects'[t] = NoConnects
     /\ \A t \in Tasks :
          pc'[t] # "idle" =>
             /\ connects'[t].calls = 1
             /\ connects'[t].opened = (IF pc'[t] = "awaiting" THEN 1 ELSE 0)
     /\ \A t \in Tasks :
          (pc[t] # "idle" /\ pc'[t] = "idle") =>
             /\ connects'[t].calls = 1
             /\ connects'[t].opened = (IF pc[t] = "awaiting" THEN 1 ELSE 0)
             /\ t \notin connections']_vars

\* An admitted call has ended in an error after its one call of
\* websockets.connect failed: it opened no connection; an earlier call had
\* opened one and stored its record.
C21_Witness ==
  /\ out.op = "generate"
  /\ ~out.success
  /\ ~Rejected
  /\ nextMotion > 1
  /\ \E t \in Tasks : pc[t] = "idle" /\ connects[t] = [calls |-> 1, opened |-> 0]

====
